---- MODULE Spec2Model ----
(***************************************************************************)
(* createDataset (stpipeline/common/dataset.py): groups annotated reads by *)
(* (gene, spot), splits every bucket into (strand, start, offset)          *)
(* neighbourhoods, clusters the UMIs of each neighbourhood, and writes the *)
(* BED trace, the count matrix and the QA statistics.                      *)
(*                                                                         *)
(* Python indices are 0-based, the sequences below are 1-based: the read   *)
(* field x[k] of the source is r[k+1] here.                                *)
(***************************************************************************)
EXTENDS Integers, Sequences, FiniteSets, TLC

\* ------------------------------------------------------------------ bounds
MaxReads == 2
MaxGenes == 2

\* --------------------------------------------------------- input alphabet
Strands == {"+", "-"}
Starts == {100, 350, 600}
UMI_AA == <<"A", "A">>
UMI_AC == <<"A", "C">>
UMI_CC == <<"C", "C">>
UMIList == <<UMI_AA, UMI_AC, UMI_CC>>
UMIs == {UMIList[n] : n \in 1..Len(UMIList)}
Spots == {<<1, 23>>, <<12, 3>>}
Genes == 1..MaxGenes
Offsets == {0, 250}
Mismatches == {0, 1}
Algorithms == {"naive", "hierarchical", "Adjacent", "AdjacentBi", "kmeans"}

\* output_folder: the default None, a folder that does not exist, a folder
\* that can be written to; a path is the list of its directories
FolderNone == [set |-> FALSE, dirs |-> <<>>]
FolderMissing == [set |-> TRUE, dirs |-> <<"missing">>]
FolderUsable == [set |-> TRUE, dirs |-> <<"out">>]
OutputFolders == {FolderNone, FolderMissing, FolderUsable}

\* output_template: the default None, "exp1", "nodir/x", "/data/abs"
TemplateNone ==
    [set |-> FALSE, absolute |-> FALSE, dirs |-> <<>>, base |-> ""]
TemplatePlain ==
    [set |-> TRUE, absolute |-> FALSE, dirs |-> <<>>, base |-> "exp1"]
TemplateSubdir ==
    [set |-> TRUE, absolute |-> FALSE, dirs |-> <<"nodir">>, base |-> "x"]
TemplateAbsolute ==
    [set |-> TRUE, absolute |-> TRUE, dirs |-> <<"data">>, base |-> "abs"]
OutputTemplates ==
    {TemplateNone, TemplatePlain, TemplateSubdir, TemplateAbsolute}

\* the directories that exist when the run starts
ExistingDirs == {<<"out">>, <<"data">>}

\* A read is the 7-tuple of the source:
\* (chrom, start, end, clear_name, mapping_quality, strand, UMI)
MkRead(name, strand, start, umi) ==
    <<"chr1", start, start + 50, name, 255, strand, umi>>

Shapes == Strands \X Starts \X UMIs

\* the reads of one (gene, spot): read n is named n
BucketOf(sh) ==
    [n \in 1..Len(sh) |-> MkRead(n, sh[n][1], sh[n][2], sh[n][3])]

Buckets == UNION {{BucketOf(sh) : sh \in [1..n -> Shapes]} : n \in 1..MaxReads}

\* the three buckets used in runs with several genes and spots
RunBuckets ==
    { BucketOf(<< <<"+", 100, UMI_AA>> >>),
      BucketOf(<< <<"+", 100, UMI_AA>>, <<"+", 100, UMI_AA>> >>),
      BucketOf(<< <<"+", 600, UMI_AA>>, <<"+", 100, UMI_AA>> >>) }

SpotMaps(B) == UNION {[S -> B] : S \in (SUBSET Spots) \ {{}}}

\* what parseUniqueEvents_byCoordinate yields: (gene, spots) pairs, one per
\* gene, in gene order
RECURSIVE GeneStreams(_, _)
GeneStreams(g, B) ==
    IF g > MaxGenes THEN {<<>>}
    ELSE LET rest == GeneStreams(g + 1, B)
         IN  rest \cup {<< <<g, m>> >> \o s : m \in SpotMaps(B), s \in rest}

SingleBucketStreams ==
    {<< <<1, (<<1, 23>> :> b)>> >> : b \in Buckets}

\* ---------------------------------------------------------------- helpers
Range(s) == {s[n] : n \in DOMAIN s}

RECURSIVE SumSeq(_)
SumSeq(s) == IF s = <<>> THEN 0 ELSE s[1] + SumSeq(Tail(s))

RECURSIVE SumFun(_, _)
SumFun(f, D) ==
    IF D = {} THEN 0
    ELSE LET d == CHOOSE e \in D : TRUE IN f[d] + SumFun(f, D \ {d})

abs(n) == IF n < 0 THEN -n ELSE n

\* ASCII codes: Python compares the strand strings "+" (43) and "-" (45)
StrandOrd(s) == IF s = "+" THEN 43 ELSE 45

\* key = lambda x: (x[5], x[1])
SortKeyLess(a, b) ==
    \/ StrandOrd(a[6]) < StrandOrd(b[6])
    \/ a[6] = b[6] /\ a[2] < b[2]

\* stable insertion of r into an already sorted sequence: r goes after every
\* element whose key is not greater than its own
RECURSIVE InsertSorted(_, _)
InsertSorted(s, r) ==
    IF s = <<>> THEN <<r>>
    ELSE IF SortKeyLess(r, s[1]) THEN <<r>> \o s
    ELSE <<s[1]>> \o InsertSorted(Tail(s), r)

\* sorted(reads, key = ...): Python's sort is stable
RECURSIVE sorted(_)
sorted(reads) ==
    IF reads = <<>> THEN <<>>
    ELSE InsertSorted(sorted(SubSeq(reads, 1, Len(reads) - 1)), reads[Len(reads)])

\* str(n) as a sequence of characters
DigitChar(d) == <<"0", "1", "2", "3", "4", "5", "6", "7", "8", "9">>[d + 1]

RECURSIVE Str(_)
Str(n) ==
    IF n < 0 THEN <<"-">> \o Str(-n)
    ELSE IF n < 10 THEN <<DigitChar(n)>>
    ELSE Str(n \div 10) \o <<DigitChar(n % 10)>>

SpotKeyNoSeparator(spot) == Str(spot[1]) \o Str(spot[2])

\* "{0}x{1}".format(x, y)
SpotKey(spot) == Str(spot[1]) \o <<"x">> \o Str(spot[2])

\* ------------------------------------------------ containers (dict, list)
EmptyDict == <<>>

\* d[k] = v
DictSet(d, k, v) == (k :> v) @@ d

\* defaultdict(list): d[k].append(v)
DictAppend(d, k, v) ==
    DictSet(d, k, IF k \in DOMAIN d THEN Append(d[k], v) ELSE <<v>>)

\* defaultdict(list): d[k]
DictGet(d, k) == IF k \in DOMAIN d THEN d[k] ELSE <<>>

\* every listing of the set S without repetition
RECURSIVE Orderings(_)
Orderings(S) ==
    IF S = {} THEN {<<>>}
    ELSE UNION {{<<e>> \o t : t \in Orderings(S \ {e})} : e \in S}

\* d.keys(): a Python 2 dict lists its keys in hash order, which the program
\* does not control; every order is a possible value
Keys(d) == Orderings(DOMAIN d)

\* ------------------------------------- stpipeline.common.clustering (UMIs)
hamming_distance(a, b) == Cardinality({n \in 1..Len(a) : a[n] # b[n]})

\* the read count of a tag as the clustering sees it: its number of
\* occurrences in the list it is given
NodeWeight(umis, t) == Cardinality({n \in 1..Len(umis) : umis[n] = t})

AdjEdge(umis, k, a, b) == hamming_distance(a, b) <= k

DirEdge(umis, k, a, b) ==
    /\ hamming_distance(a, b) <= k
    /\ NodeWeight(umis, b) >= NodeWeight(umis, a)
    /\ NodeWeight(umis, a) <= 2 * NodeWeight(umis, b) - 1

\* the nodes connected to S by edges taken in either direction
RECURSIVE Component(_, _, _)
Component(S, nodes, edges) ==
    LET T == S \cup {b \in nodes :
                        \E a \in S : <<a, b>> \in edges \/ <<b, a>> \in edges}
    IN  IF T = S THEN S ELSE Component(T, nodes, edges)

Clusters(nodes, edges) == {Component({t}, nodes, edges) : t \in nodes}

\* every way of keeping one tag per cluster, as a list in UMIList order
Representatives(clusters) ==
    {SelectSeq(UMIList, LAMBDA u : u \in R) :
        R \in {Q \in SUBSET (UNION clusters) :
                  \A c \in clusters : Cardinality(Q \cap c) = 1}}

\* exact strategy: one cluster per distinct tag
countUMINaive(umis, k) ==
    Representatives({{t} : t \in Range(umis)})

countUMIHierarchical(umis, k) ==
    LET nodes == Range(umis)
    IN  Representatives(Clusters(nodes,
            {e \in nodes \X nodes : hamming_distance(e[1], e[2]) <= k}))

dedup_adj(umis, k) ==
    LET nodes == Range(umis)
    IN  Representatives(Clusters(nodes,
            {e \in nodes \X nodes : AdjEdge(umis, k, e[1], e[2])}))

dedup_dir_adj(umis, k) ==
    LET nodes == Range(umis)
    IN  Representatives(Clusters(nodes,
            {e \in nodes \X nodes : DirEdge(umis, k, e[1], e[2])}))

\* the possible return values of the selected clustering function
CallFunc(f, umis, k) ==
    CASE f = "countUMINaive" -> countUMINaive(umis, k)
      [] f = "countUMIHierarchical" -> countUMIHierarchical(umis, k)
      [] f = "dedup_adj" -> dedup_adj(umis, k)
      [] f = "dedup_dir_adj" -> dedup_dir_adj(umis, k)

\* ------------------------------------------------- createDataset, pieces
ClusteringFunctionDefault(name) ==
    IF name = "naive" THEN "countUMINaive"
    ELSE IF name = "Adjacent" THEN "dedup_adj"
    ELSE IF name = "AdjacentBi" THEN "dedup_dir_adj"
    ELSE "countUMIHierarchical"

\* the if/elif chain that obtains the clustering function
ClusteringFunction(name) ==
    IF name = "naive" THEN "countUMINaive"
    ELSE IF name = "hierarchical" THEN "countUMIHierarchical"
    ELSE IF name = "Adjacent" THEN "dedup_adj"
    ELSE IF name = "AdjacentBi" THEN "dedup_dir_adj"
    ELSE "none"

NewGroupReachedInclusive(current, nextone, offset) ==
    abs(current[2] - nextone[2]) >= offset \/ current[6] # nextone[6]

NewGroupReachedBoth(current, nextone, offset) ==
    abs(current[2] - nextone[2]) > offset /\ current[6] # nextone[6]

\* the condition that closes a group between two adjacent sorted reads
NewGroupReached(current, nextone, offset) ==
    abs(current[2] - nextone[2]) > offset \/ current[6] # nextone[6]

\* the possible values of the argument handed to the clustering function
UmiArgument(grouped) == Keys(grouped)

\* "{}_reads.bed".format(output_template), or "reads.bed"
filenameReadsBED(template) ==
    IF template.set
    THEN [absolute |-> template.absolute, dirs |-> template.dirs,
          base |-> <<template.base, "_reads.bed">>]
    ELSE [absolute |-> FALSE, dirs |-> <<>>, base |-> <<"reads.bed">>]

\* "{}_stdata.tsv".format(output_template), or "stdata.tsv"
filenameDataFrame(template) ==
    IF template.set
    THEN [absolute |-> template.absolute, dirs |-> template.dirs,
          base |-> <<template.base, "_stdata.tsv">>]
    ELSE [absolute |-> FALSE, dirs |-> <<>>, base |-> <<"stdata.tsv">>]

\* os.path.join(output_folder, filename) of Python 2.7: an absolute filename
\* replaces the folder, which is then not looked at; otherwise
\* folder.endswith is called, which None does not have
PathJoin(folder, filename) ==
    IF filename.absolute
    THEN [error |-> "none", dirs |-> filename.dirs, base |-> filename.base]
    ELSE IF ~folder.set
    THEN [error |-> "AttributeError", dirs |-> <<>>, base |-> <<>>]
    ELSE [error |-> "none", dirs |-> folder.dirs \o filename.dirs,
          base |-> filename.base]

\* the error of joining the path and opening it for writing, "none" when
\* the file is opened: the directory of the file has to exist
OpenError(folder, filename) ==
    LET path == PathJoin(folder, filename)
    IN  IF path.error # "none" THEN path.error
        ELSE IF path.dirs \notin ExistingDirs THEN "IOError"
        ELSE "none"

ResetContainerKept(grouped) == grouped

\* "Reset the container"
ResetContainer(grouped) == EmptyDict

WithLastOneForgotten(grouped, lastone) == grouped

\* the container after the last read has been added to it
WithLastOne(grouped, lastone) == DictAppend(grouped, lastone[7], lastone)

\* [random.choice(grouped_reads[u_umi]) for u_umi in unique_umis]: every
\* list the random choices can produce
RandomChoices(grouped, unique_umis) ==
    LET all == UNION {Range(grouped[u]) : u \in DOMAIN grouped}
    IN  {s \in [1..Len(unique_umis) -> all] :
            \A n \in 1..Len(unique_umis) :
                s[n] \in Range(DictGet(grouped, unique_umis[n]))}

\* "The new gene count"
TranscriptCount(unique) == Len(unique)

AddDiscardedOverwrite(discarded, rc, tc) == rc - tc

\* discarded_reads += (read_count - transcript_count)
AddDiscarded(discarded, rc, tc) == discarded + (rc - tc)

\* the line written to the BED file for one unique transcript
BedLine(read, g, spot) ==
    <<read[1], read[2], read[3], read[4], read[5], read[6], g, spot[1], spot[2]>>

\* if total_record == 0
NoTranscript(total) == total = 0

\* pd.DataFrame(list_row_values, index=list_indexes), fillna(0), .T:
\* rows are the spot keys, columns the positions of list_indexes
CountsTable(rows) ==
    LET keys == UNION {DOMAIN rows[n] : n \in 1..Len(rows)}
    IN  [key \in keys |->
            [n \in 1..Len(rows) |->
                IF key \in DOMAIN rows[n] THEN rows[n][key] ELSE 0]]

\* np.sum(counts_table.values, dtype=np.int32): exact while the sum stays
\* below 2^31
TotalTranscripts(table) ==
    SumFun([key \in DOMAIN table |-> SumFun(table[key], DOMAIN table[key])],
           DOMAIN table)

\* ------------------------------------------------------------------ state
VARIABLES
    input_exists,             \* os.path.isfile(input_file)
    input_events,             \* the (gene, spots) groups held by the input file
    umi_cluster_algorithm,
    umi_allowed_mismatches,
    umi_counting_offset,
    output_folder,
    output_template,
    pc,                       \* position in createDataset
    outcome,                  \* "running", "ok" or the error raised
    group_umi_func,
    all_unique_events,        \* what the generator has still to yield
    reads_handler,            \* "unopened", "open", "closed"
    bed,                      \* lines of the BED file
    gene,
    spots,                    \* spots of the gene still to iterate
    transcript_counts_by_spot,
    spot_coordinates,
    reads,
    read_count,
    sorted_reads,
    i,
    grouped_reads,
    unique_transcripts,
    total_record,
    discarded_reads,
    list_indexes,
    list_row_values,
    qa_stats,
    matrix_file,              \* the TSV file: [exists, header, table]
    calls,                    \* calls of group_umi_func made for the bucket
    bucket_log                \* one entry per bucket that passed the assert

params == <<input_exists, input_events, umi_cluster_algorithm,
            umi_allowed_mismatches, umi_counting_offset, output_folder,
            output_template>>
bucket == <<spot_coordinates, reads, read_count, sorted_reads, i,
            grouped_reads, unique_transcripts, calls>>
frames == <<list_indexes, list_row_values>>
outputs == <<qa_stats, matrix_file>>
vars == <<params, pc, outcome, group_umi_func, all_unique_events,
          reads_handler, bed, gene, spots, transcript_counts_by_spot, bucket,
          total_record, discarded_reads, frames, outputs, bucket_log>>

InitLocals ==
    /\ pc = "check_input"
    /\ outcome = "running"
    /\ group_umi_func = "none"
    /\ all_unique_events = <<>>
    /\ reads_handler = "unopened"
    /\ bed = <<>>
    /\ gene = 0
    /\ spots = EmptyDict
    /\ transcript_counts_by_spot = EmptyDict
    /\ spot_coordinates = <<0, 0>>
    /\ reads = <<>>
    /\ read_count = 0
    /\ sorted_reads = <<>>
    /\ i = 0
    /\ grouped_reads = EmptyDict
    /\ unique_transcripts = <<>>
    /\ total_record = 0
    /\ discarded_reads = 0
    /\ list_indexes = <<>>
    /\ list_row_values = <<>>
    /\ qa_stats = [reads_after_duplicates_removal |-> 0, unique_events |-> 0,
                   barcodes_found |-> 0, genes_found |-> 0,
                   duplicates_found |-> 0]
    /\ matrix_file = [exists |-> FALSE, header |-> <<>>, table |-> EmptyDict]
    /\ calls = <<>>
    /\ bucket_log = <<>>

\* runs over several genes and spots with the default mismatches and offset
InitRun ==
    /\ input_exists \in BOOLEAN
    /\ input_events \in IF input_exists THEN GeneStreams(1, RunBuckets)
                        ELSE {<<>>}
    /\ umi_cluster_algorithm \in Algorithms
    /\ umi_allowed_mismatches = 1
    /\ umi_counting_offset = 250
    /\ output_folder = FolderUsable
    /\ output_template = TemplateNone

\* runs over one bucket of any reads, with any mismatches and offset
InitBucket ==
    /\ input_exists = TRUE
    /\ input_events \in SingleBucketStreams
    /\ umi_cluster_algorithm \in Algorithms \ {"kmeans"}
    /\ umi_allowed_mismatches \in Mismatches
    /\ umi_counting_offset \in Offsets
    /\ output_folder = FolderUsable
    /\ output_template = TemplateNone

\* runs with any output folder and template, over at most one bucket
InitOutput ==
    /\ input_exists = TRUE
    /\ input_events \in
          {<<>>} \cup {<< <<1, (<<1, 23>> :> b)>> >> : b \in RunBuckets}
    /\ umi_cluster_algorithm \in Algorithms
    /\ umi_allowed_mismatches = 1
    /\ umi_counting_offset = 250
    /\ output_folder \in OutputFolders
    /\ output_template \in OutputTemplates

Init == (InitRun \/ InitBucket \/ InitOutput) /\ InitLocals

\* ---------------------------------------------------------------- actions
\* raise inside or outside the with block: the handler is closed on the way
Raise(error) ==
    /\ outcome' = error
    /\ pc' = "done"
    /\ reads_handler' = IF reads_handler = "open" THEN "closed"
                         ELSE reads_handler

\* if not os.path.isfile(input_file): raise
CheckInputFile ==
    /\ pc = "check_input"
    /\ IF ~input_exists
         THEN Raise("InputNotPresent")
         ELSE pc' = "select" /\ UNCHANGED <<outcome, reads_handler>>
    /\ UNCHANGED <<params, group_umi_func, all_unique_events, bed, gene,
                   spots, transcript_counts_by_spot, bucket, total_record,
                   discarded_reads, frames, outputs, bucket_log>>

\* "Obtain the clustering function"
SelectClustering ==
    /\ pc = "select"
    /\ LET f == ClusteringFunction(umi_cluster_algorithm)
       IN  IF f = "none"
           THEN Raise("IncorrectAlgorithm") /\ UNCHANGED group_umi_func
           ELSE /\ group_umi_func' = f
                /\ pc' = "parse"
                /\ UNCHANGED <<outcome, reads_handler>>
    /\ UNCHANGED <<params, all_unique_events, bed, gene, spots,
                   transcript_counts_by_spot, bucket, total_record,
                   discarded_reads, frames, outputs, bucket_log>>

\* parseUniqueEvents_byCoordinate(...) and open(..., "w")
OpenReadsHandler ==
    /\ pc = "parse"
    /\ all_unique_events' = input_events
    /\ IF OpenError(output_folder, filenameReadsBED(output_template)) # "none"
         THEN /\ Raise(OpenError(output_folder,
                                 filenameReadsBED(output_template)))
              /\ UNCHANGED bed
         ELSE /\ reads_handler' = "open"
              /\ bed' = <<>>
              /\ pc' = "genes"
              /\ UNCHANGED outcome
    /\ UNCHANGED <<params, group_umi_func, gene, spots,
                   transcript_counts_by_spot, bucket, total_record,
                   discarded_reads, frames, outputs, bucket_log>>

\* for gene, spots in all_unique_events
NextGene ==
    /\ pc = "genes"
    /\ all_unique_events # <<>>
    /\ gene' = Head(all_unique_events)[1]
    /\ spots' = Head(all_unique_events)[2]
    /\ all_unique_events' = Tail(all_unique_events)
    /\ transcript_counts_by_spot' = EmptyDict
    /\ pc' = "spots"
    /\ UNCHANGED <<params, outcome, group_umi_func, reads_handler, bed,
                   bucket, total_record, discarded_reads, frames, outputs,
                   bucket_log>>

\* the generator is exhausted: the with block ends
EndOfEvents ==
    /\ pc = "genes"
    /\ all_unique_events = <<>>
    /\ reads_handler' = "closed"
    /\ pc' = "check_total"
    /\ UNCHANGED <<params, outcome, group_umi_func, all_unique_events, bed,
                   gene, spots, transcript_counts_by_spot, bucket,
                   total_record, discarded_reads, frames, outputs,
                   bucket_log>>

\* for spot_coordinates, reads in spots.iteritems(): the dict's order is
\* not fixed
NextSpot ==
    /\ pc = "spots"
    /\ \E sc \in DOMAIN spots :
          /\ spot_coordinates' = sc
          /\ reads' = spots[sc]
          /\ read_count' = Len(spots[sc])
          /\ sorted_reads' = sorted(spots[sc])
          /\ spots' = [t \in DOMAIN spots \ {sc} |-> spots[t]]
    /\ grouped_reads' = EmptyDict
    /\ unique_transcripts' = <<>>
    /\ i' = 0
    /\ calls' = <<>>
    /\ pc' = "scan"
    /\ UNCHANGED <<params, outcome, group_umi_func, all_unique_events,
                   reads_handler, bed, gene, transcript_counts_by_spot,
                   total_record, discarded_reads, frames, outputs,
                   bucket_log>>

\* "Add spot and dict [gene] -> count to containers"
EndGene ==
    /\ pc = "spots"
    /\ DOMAIN spots = {}
    /\ list_indexes' = Append(list_indexes, gene)
    /\ list_row_values' = Append(list_row_values, transcript_counts_by_spot)
    /\ pc' = "genes"
    /\ UNCHANGED <<params, outcome, group_umi_func, all_unique_events,
                   reads_handler, bed, gene, spots,
                   transcript_counts_by_spot, bucket, total_record,
                   discarded_reads, outputs, bucket_log>>

\* the clustering of one group and the choice of its unique transcripts
Cluster(grouped, next_grouped) ==
    \E umis \in UmiArgument(grouped) :
      \E unique_umis \in CallFunc(group_umi_func, umis,
                                   umi_allowed_mismatches) :
        \E chosen \in RandomChoices(grouped, unique_umis) :
          /\ unique_transcripts' = unique_transcripts \o chosen
          /\ calls' = Append(calls, [umis |-> umis,
                                     group |-> grouped,
                                     unique_umis |-> unique_umis])
          /\ grouped_reads' = next_grouped

\* one iteration of: for i in xrange(read_count-1)
ScanStep ==
    /\ pc = "scan"
    /\ i < read_count - 1
    /\ LET current == sorted_reads[i + 1]
           nextone == sorted_reads[i + 2]
           grouped == DictAppend(grouped_reads, current[7], current)
       IN  IF NewGroupReached(current, nextone, umi_counting_offset)
           THEN Cluster(grouped, ResetContainer(grouped))
           ELSE /\ grouped_reads' = grouped
                /\ UNCHANGED <<unique_transcripts, calls>>
    /\ i' = i + 1
    /\ UNCHANGED <<params, pc, outcome, group_umi_func, all_unique_events,
                   reads_handler, bed, gene, spots,
                   transcript_counts_by_spot, spot_coordinates, reads,
                   read_count, sorted_reads, total_record, discarded_reads,
                   frames, outputs, bucket_log>>

\* "We process the last one and more transcripts if they were not processed"
ProcessLast ==
    /\ pc = "scan"
    /\ i >= read_count - 1
    /\ IF read_count = 0
         THEN /\ Raise("IndexError")
              /\ UNCHANGED <<grouped_reads, unique_transcripts, calls>>
         ELSE /\ LET grouped == WithLastOne(grouped_reads,
                                             sorted_reads[read_count])
                 IN  Cluster(grouped, grouped)
              /\ pc' = "count"
              /\ UNCHANGED <<outcome, reads_handler>>
    /\ UNCHANGED <<params, group_umi_func, all_unique_events, bed, gene,
                   spots, transcript_counts_by_spot, spot_coordinates, reads,
                   read_count, sorted_reads, i, total_record,
                   discarded_reads, frames, outputs, bucket_log>>

\* the assert, the counters, the count of the spot and the BED lines
CountBucket ==
    /\ pc = "count"
    /\ LET transcript_count == TranscriptCount(unique_transcripts)
       IN  IF ~(transcript_count > 0 /\ transcript_count <= read_count)
           THEN /\ Raise("AssertionError")
                /\ UNCHANGED <<discarded_reads, transcript_counts_by_spot,
                               bed, total_record, bucket_log>>
           ELSE /\ discarded_reads' =
                       AddDiscarded(discarded_reads, read_count,
                                    transcript_count)
                /\ transcript_counts_by_spot' =
                       DictSet(transcript_counts_by_spot,
                               SpotKey(spot_coordinates), transcript_count)
                /\ bed' = bed \o [n \in 1..Len(unique_transcripts) |->
                               BedLine(unique_transcripts[n], gene,
                                       spot_coordinates)]
                /\ total_record' = total_record + 1
                /\ bucket_log' = Append(bucket_log,
                       [gene |-> gene, spot |-> spot_coordinates,
                        read_count |-> read_count,
                        transcript_count |-> transcript_count,
                        calls |-> calls])
                /\ pc' = "spots"
                /\ UNCHANGED <<outcome, reads_handler>>
    /\ UNCHANGED <<params, group_umi_func, all_unique_events, gene, spots,
                   bucket, frames, outputs>>

\* if total_record == 0: raise
CheckTotalRecord ==
    /\ pc = "check_total"
    /\ IF NoTranscript(total_record)
         THEN Raise("NoTranscript")
         ELSE pc' = "stats" /\ UNCHANGED <<outcome, reads_handler>>
    /\ UNCHANGED <<params, group_umi_func, all_unique_events, bed, gene,
                   spots, transcript_counts_by_spot, bucket, total_record,
                   discarded_reads, frames, outputs, bucket_log>>

\* "Compute some statistics" and "Update the QA object"
UpdateStats ==
    /\ pc = "stats"
    /\ LET counts_table == CountsTable(list_row_values)
       IN  qa_stats' =
             [reads_after_duplicates_removal |-> TotalTranscripts(counts_table),
              unique_events |-> total_record,
              barcodes_found |-> Cardinality(DOMAIN counts_table),
              genes_found |-> Len(list_indexes),
              duplicates_found |-> discarded_reads]
    /\ pc' = "write"
    /\ UNCHANGED <<params, outcome, group_umi_func, all_unique_events,
                   reads_handler, bed, gene, spots,
                   transcript_counts_by_spot, bucket, total_record,
                   discarded_reads, frames, matrix_file, bucket_log>>

\* counts_table.to_csv(...)
WriteDataFrame ==
    /\ pc = "write"
    /\ IF OpenError(output_folder, filenameDataFrame(output_template)) # "none"
         THEN /\ Raise(OpenError(output_folder,
                                 filenameDataFrame(output_template)))
              /\ UNCHANGED matrix_file
         ELSE /\ matrix_file' = [exists |-> TRUE, header |-> list_indexes,
                                 table |-> CountsTable(list_row_values)]
              /\ outcome' = "ok"
              /\ pc' = "done"
              /\ UNCHANGED reads_handler
    /\ UNCHANGED <<params, group_umi_func, all_unique_events,
                   bed, gene, spots, transcript_counts_by_spot, bucket,
                   total_record, discarded_reads, frames, qa_stats,
                   bucket_log>>

Next ==
    \/ CheckInputFile
    \/ SelectClustering
    \/ OpenReadsHandler
    \/ NextGene
    \/ EndOfEvents
    \/ NextSpot
    \/ EndGene
    \/ ScanStep
    \/ ProcessLast
    \/ CountBucket
    \/ CheckTotalRecord
    \/ UpdateStats
    \/ WriteDataFrame

Spec == Init /\ [][Next]_vars

\* ----------------------------------------------------------- properties
KnownAlgorithms == {"naive", "hierarchical", "Adjacent", "AdjacentBi"}

\* the reads of a group, whatever their tag
GroupReads(group) == UNION {Range(group[u]) : u \in DOMAIN group}

\* the number of reads of a group
GroupSize(group) == SumFun([u \in DOMAIN group |-> Len(group[u])], DOMAIN group)

\* the number of reads the input file holds
TotalReadsIn ==
    SumSeq([g \in 1..Len(input_events) |->
              SumFun([sc \in DOMAIN input_events[g][2] |->
                        Len(input_events[g][2][sc])],
                     DOMAIN input_events[g][2])])

\* the clusters returned by the calls of a bucket
ClustersOf(cs) == SumSeq([c \in 1..Len(cs) |-> Len(cs[c].unique_umis)])

\* the clusters returned so far in the run
ClustersProduced ==
    ClustersOf(calls)
      + SumSeq([n \in 1..Len(bucket_log) |-> ClustersOf(bucket_log[n].calls)])

\* the BED lines written for a gene and a spot
LinesOf(g, sc) ==
    {n \in 1..Len(bed) : bed[n][7] = g /\ bed[n][8] = sc[1] /\ bed[n][9] = sc[2]}

\* the groups of same-tag reads: the (strand, start) values that no other
\* read of the strand precedes within the offset
GroupOpeners(rs, offset) ==
    {v \in {<<rs[n][6], rs[n][2]>> : n \in 1..Len(rs)} :
        ~\E m \in 1..Len(rs) :
            /\ rs[m][6] = v[1]
            /\ rs[m][2] < v[2]
            /\ v[2] - rs[m][2] <= offset}

SameTags(rs) == \A n, m \in 1..Len(rs) : rs[n][7] = rs[m][7]

\* C1: whenever the scan of a bucket is over, the number of unique
\* transcripts is at least 1 and at most the number of reads of the bucket,
\* so the assertion never fails, with any of the four clustering functions
\* and any offset.
C1_DedupWithinRaw ==
    /\ outcome # "AssertionError"
    /\ pc = "count" =>
          /\ read_count = Len(reads)
          /\ 1 <= Len(unique_transcripts)
          /\ Len(unique_transcripts) <= read_count
    /\ \A n \in 1..Len(bucket_log) :
          /\ 1 <= bucket_log[n].transcript_count
          /\ bucket_log[n].transcript_count <= bucket_log[n].read_count

C1_Witness ==
    /\ pc = "count"
    /\ read_count = 2
    /\ reads[1][7] # reads[2][7]
    /\ Len(unique_transcripts) = 1

\* C2: after a successful run the reported number of discarded reads is the
\* sum over the buckets of (reads - unique transcripts), is not negative,
\* and is the number of reads of the input minus the sum of the entries of
\* the count matrix, which is reads_after_duplicates_removal.
C2_DiscardedIsSum ==
    outcome = "ok" =>
      /\ Len(bucket_log) =
            SumSeq([g \in 1..Len(input_events) |->
                      Cardinality(DOMAIN input_events[g][2])])
      /\ qa_stats.duplicates_found =
            SumSeq([n \in 1..Len(bucket_log) |->
                      bucket_log[n].read_count - bucket_log[n].transcript_count])
      /\ qa_stats.duplicates_found >= 0
      /\ qa_stats.duplicates_found =
            TotalReadsIn - qa_stats.reads_after_duplicates_removal
      /\ qa_stats.reads_after_duplicates_removal =
            SumFun([key \in DOMAIN matrix_file.table |->
                      SumSeq(matrix_file.table[key])],
                   DOMAIN matrix_file.table)

C2_Witness ==
    /\ outcome = "ok"
    /\ Len(bucket_log) >= 3
    /\ qa_stats.duplicates_found >= 2
    /\ qa_stats.reads_after_duplicates_removal >= 4

\* C3: when the scan of a bucket is over, every read of the bucket, the last
\* sorted one included, is in exactly one group handed to the clustering
\* function, every such group holds at least one read and only reads of the
\* bucket, and the tag list handed over is not empty.
C3_NoReadDropped ==
    pc = "count" =>
      /\ \A r \in Range(reads) :
            Cardinality({c \in 1..Len(calls) :
                           r \in GroupReads(calls[c].group)}) = 1
      /\ SumSeq([c \in 1..Len(calls) |-> GroupSize(calls[c].group)])
            = Len(reads)
      /\ sorted_reads[read_count] \in GroupReads(calls[Len(calls)].group)
      /\ \A c \in 1..Len(calls) :
            /\ GroupReads(calls[c].group) # {}
            /\ GroupReads(calls[c].group) \subseteq Range(reads)
            /\ calls[c].umis # <<>>

C3_Witness ==
    /\ pc = "count"
    /\ read_count >= 2
    /\ Len(calls) >= 2
    /\ GroupReads(calls[Len(calls)].group) = {sorted_reads[read_count]}

\* C4: the reads are scanned in ascending (strand, start) order, and two
\* adjacent sorted reads fall in different groups if and only if their
\* starts differ by more than the offset or their strands differ; two reads
\* of one strand at 100 and 600 with offset 250 make two groups and a count
\* of 2.
C4_GroupBoundary ==
    pc = "count" =>
      /\ \A n \in 1..(read_count - 1) :
            \/ StrandOrd(sorted_reads[n][6]) < StrandOrd(sorted_reads[n + 1][6])
            \/ /\ sorted_reads[n][6] = sorted_reads[n + 1][6]
               /\ sorted_reads[n][2] <= sorted_reads[n + 1][2]
      /\ \A n \in 1..(read_count - 1) :
            (\E c \in 1..Len(calls) :
                {sorted_reads[n], sorted_reads[n + 1]}
                    \subseteq GroupReads(calls[c].group))
            <=> ~ \/ sorted_reads[n + 1][2] - sorted_reads[n][2]
                        > umi_counting_offset
                  \/ sorted_reads[n][2] - sorted_reads[n + 1][2]
                        > umi_counting_offset
                  \/ sorted_reads[n][6] # sorted_reads[n + 1][6]
      /\ ( /\ read_count = 2
           /\ umi_counting_offset = 250
           /\ reads[1][6] = reads[2][6]
           /\ {reads[1][2], reads[2][2]} = {100, 600} )
          => Len(calls) = 2 /\ Len(unique_transcripts) = 2

C4_Witness ==
    /\ pc = "count"
    /\ read_count = 2
    /\ umi_counting_offset = 250
    /\ reads[1][6] = reads[2][6]
    /\ reads[1][7] = reads[2][7]
    /\ reads[1][2] = 600
    /\ reads[2][2] = 100
    /\ Len(unique_transcripts) = 2

\* C5 as stated: a run with an unrecognised algorithm name ends with the
\* incorrect-algorithm error whatever the other arguments are.
C5_EagerWhateverTheInput ==
    (umi_cluster_algorithm \notin KnownAlgorithms /\ pc = "done")
        => outcome = "IncorrectAlgorithm"

\* C5 amended: with an unrecognised algorithm name the run never parses the
\* input, never opens an output and never processes a bucket; it ends with
\* the incorrect-algorithm error when the input file exists and with the
\* input-not-present error, raised first, when it does not.
C5_EagerWhenInputExists ==
    umi_cluster_algorithm \notin KnownAlgorithms =>
      /\ pc \in {"check_input", "select", "done"}
      /\ reads_handler = "unopened"
      /\ ~matrix_file.exists
      /\ all_unique_events = <<>>
      /\ calls = <<>> /\ bucket_log = <<>> /\ total_record = 0
      /\ pc = "done" =>
            outcome = IF input_exists THEN "IncorrectAlgorithm"
                      ELSE "InputNotPresent"

C5_Witness ==
    /\ umi_cluster_algorithm \notin KnownAlgorithms
    /\ outcome = "IncorrectAlgorithm"
    /\ Len(input_events) = 2

\* C6: a failed run leaves no output file behind: neither the BED file nor
\* the matrix file has been created.
C6_NoOutputLeftOnFailure ==
    outcome \notin {"running", "ok"} =>
        reads_handler = "unopened" /\ ~matrix_file.exists

\* C7: after a successful run the BED file holds one line per unique
\* transcript of every bucket; for every gene and spot the entry of the
\* matrix is the number of BED lines of that gene and spot and the number of
\* clusters returned for the groups of that bucket; every BED line is a read
\* of its bucket.
C7_MatrixMatchesTrace ==
    outcome = "ok" =>
      /\ Len(bed) = SumSeq([n \in 1..Len(bucket_log) |->
                              bucket_log[n].transcript_count])
      /\ Len(matrix_file.header) = Len(input_events)
      /\ \A g \in 1..Len(input_events) :
            /\ matrix_file.header[g] = input_events[g][1]
            /\ \A sc \in Spots :
                  LET name == input_events[g][1]
                      key == Str(sc[1]) \o <<"x">> \o Str(sc[2])
                      entry == IF key \in DOMAIN matrix_file.table
                               THEN matrix_file.table[key][g] ELSE 0
                      logged == {n \in 1..Len(bucket_log) :
                                   /\ bucket_log[n].gene = name
                                   /\ bucket_log[n].spot = sc}
                  IN  /\ entry = Cardinality(LinesOf(name, sc))
                      /\ IF sc \in DOMAIN input_events[g][2]
                         THEN /\ Cardinality(logged) = 1
                              /\ \A n \in logged :
                                    entry = ClustersOf(bucket_log[n].calls)
                              /\ \A n \in LinesOf(name, sc) :
                                    \E r \in Range(input_events[g][2][sc]) :
                                      bed[n] = <<r[1], r[2], r[3], r[4], r[5],
                                                 r[6], name, sc[1], sc[2]>>
                         ELSE logged = {} /\ entry = 0

C7_Witness ==
    /\ outcome = "ok"
    /\ Len(matrix_file.header) = 2
    /\ Cardinality(DOMAIN matrix_file.table) = 2
    /\ Len(bed) >= 4

\* C8: the run ends with the no-transcript error only once the whole scan
\* is over and no cluster was returned; a run over an input that holds gene
\* groups ends with it whenever its scan is over without a cluster; and a
\* missing input file or a structurally empty input (no gene group at all)
\* ends with another error than the no-transcript error.
C8_EmptyInputIsAnotherError ==
    /\ outcome = "NoTranscript" =>
          /\ pc = "done"
          /\ all_unique_events = <<>> /\ reads_handler = "closed"
          /\ ClustersProduced = 0
    /\ ClustersProduced > 0 => outcome # "NoTranscript"
    /\ ( /\ pc = "done"
         /\ reads_handler = "closed"
         /\ input_events # <<>>
         /\ ClustersProduced = 0 ) => outcome = "NoTranscript"
    /\ (pc = "done" /\ (~input_exists \/ input_events = <<>>))
          => outcome \notin {"NoTranscript", "ok"}

\* C9 as stated: with the naive (exact) function a bucket whose reads all
\* carry the same tag counts 1, whatever the strands, starts and offset.
C9_IdenticalTagsCountOne ==
    (pc = "count" /\ umi_cluster_algorithm = "naive" /\ SameTags(reads))
        => Len(unique_transcripts) = 1

\* C9 amended: with the naive (exact) function a bucket whose reads all
\* carry the same tag counts one per (strand, start, offset) group of the
\* bucket, hence 1 when all its reads are in one group.
C9_IdenticalTagsCountGroups ==
    (pc = "count" /\ umi_cluster_algorithm = "naive" /\ SameTags(reads))
        => /\ Len(unique_transcripts)
                = Cardinality(GroupOpeners(reads, umi_counting_offset))
           /\ Len(calls) = 1 => Len(unique_transcripts) = 1

C9_Witness ==
    /\ pc = "count"
    /\ umi_cluster_algorithm = "naive"
    /\ read_count = 2
    /\ SameTags(reads)
    /\ reads[1][2] # reads[2][2]
    /\ Len(unique_transcripts) = 1

\* C10: for Adjacent and AdjacentBi the list handed to the clustering
\* function gives one node per distinct tag of the group, and the weight of
\* each node is the number of reads of the group that carry the tag.
C10_WeightsReachClustering ==
    umi_cluster_algorithm \in {"Adjacent", "AdjacentBi"} =>
      \A c \in 1..Len(calls) :
        /\ Range(calls[c].umis) = DOMAIN calls[c].group
        /\ \A t \in DOMAIN calls[c].group :
              NodeWeight(calls[c].umis, t) = Len(calls[c].group[t])
====
